---- MODULE Spec2Model ----
(***************************************************************************)
(* A model of @untools/gql-client:                                         *)
(*   - GraphQLWebSocketClient (src/src/websocketClient.ts): the connection *)
(*     state machine, its timers, the subscription registry and routing;   *)
(*   - graphqlRequest's body construction (src/src/graphqlRequest.ts) with *)
(*     the file walker of utils/fileUpload.ts (src/unnamed/part_002).      *)
(* The client runs on one JavaScript event loop: every action below is one *)
(* task (a caller's call, a socket event, a timer callback) or the run of  *)
(* one promise continuation.                                               *)
(***************************************************************************)
EXTENDS Integers, Sequences, FiniteSets, Bags, TLC

\* ------------------------------------------------------------------ bounds
MaxTransports == 2      \* sockets one client constructs in a behaviour
MaxSubscribes == 2      \* subscribe() calls
MaxCalls == 2           \* calls of subscribe, close, reconnect and
                        \* updateConnectionParams, together
WideTransports == 3     \* the same three bounds of the wider exploration
WideSubscribes == 2
WideCalls == 3
DeepTransports == 11    \* the bounds of the exploration of the backoff chain
DeepSubscribes == 1
DeepCalls == 1
DeepLive == 1           \* sockets that are not yet closed at one time
StormTransports == 12   \* the bounds of the exploration of repeated reconnect()
StormCalls == 12
MaxFileParts == 8       \* file parts of one multipart body

\* ------------------------------------------------------- program constants
maxReconnectAttempts == 10
reconnectDelay == 1000

\* ------------------------------------------------------------ input sets
ParamMaps == { [k \in {"token"} |-> 1] }
ParamPatches == { [k \in {"token"} |-> 2], [k \in {"tenant"} |-> 1] }
Callbacks == {"onNext", "onError", "onComplete"}
SubscriptionOptions ==
    { [query |-> "q1", variables |-> 1, cbs |-> Callbacks],
      [query |-> "q2", variables |-> 2, cbs |-> {}] }
\* Inbound frames: the types without an id, and the types that carry one.
ControlTypes == {"connection_ack", "ping", "pong", "other"}
RoutedTypes == {"next", "error", "complete"}

\* Promise handles: a transport id t >= 1 is the promise made by the connect()
\* call that constructed transport t.
NoPromise == 0          \* connectionPromise is undefined
CtorFailed == 0 - 1     \* made by a connect() whose constructor threw: rejected
ResolvedNow == 0 - 2    \* Promise.resolve()

EmptyMap == [x \in {} |-> 0]
Put(f, k, v) == [x \in (DOMAIN f) \cup {k} |-> IF x = k THEN v ELSE f[x]]
Del(f, k) == [x \in (DOMAIN f) \ {k} |-> f[x]]
RemoveAt(q, i) == [j \in 1..(Len(q) - 1) |-> IF j < i THEN q[j] ELSE q[j + 1]]

VARIABLES
    ws,                 \* this.ws: 0 is null, else the transport
    connectionParams,   \* this.connectionParams
    subscriptions,      \* this.subscriptions: id -> options
    messageId,          \* this.messageId
    isConnecting,       \* this.isConnecting
    shouldReconnect,    \* this.shouldReconnect
    reconnectAttempts,  \* this.reconnectAttempts
    pingInterval,       \* this.pingInterval: 0 is undefined, else the handle
    connectionPromise,  \* this.connectionPromise
    sock,               \* readyState of every transport constructed so far
    prom,               \* state of the promise of every connect attempt
    pingTimers,         \* setInterval handles that are still active
    timers,             \* delays of the reconnect timers that have not fired yet
    waiting,            \* subscribe() calls suspended at `await this.connect()`
    wsUrlValid,         \* whether `new WebSocket(wsUrl, protocols)` returns
    step,               \* what the last task did: messages sent, callbacks run
    closures,           \* transport closures with reconnection enabled since
                        \* the last transport open or reconnect() call
    schedDelays,        \* the delays those closures scheduled, in order
    unsubscribed,       \* ids whose unsubscribe closure has been called
    closedIds,          \* ids that were in the registry when close() ran
    calls,              \* number of calls the caller has made, per method
    lim,                \* the bounds this behaviour is explored under
    reqIn,              \* the options graphqlRequest was called with
    reqOut,             \* the request graphqlRequest handed to fetch
    walked,             \* what extractFiles(variables) returned to a caller
    reqCtx,             \* graphqlRequest's other arguments and the factory's
                        \* defaults: headers, apiKey, defaultApiKey, defaultHeaders
    reqReply,           \* the headers given to fetch and what the call settled as
    exec                \* a call of executeGraphQL: the request it issued and
                        \* what it settled as

clientVars ==
    << ws, connectionParams, subscriptions, messageId, isConnecting,
       shouldReconnect, reconnectAttempts, pingInterval, connectionPromise >>
envVars == << sock, prom, pingTimers, timers, waiting, wsUrlValid >>
ghostVars == << step, closures, schedDelays, unsubscribed, closedIds, calls, lim >>
wsVars == << clientVars, envVars, ghostVars >>
reqVars == << reqIn, reqOut, walked, reqCtx, reqReply, exec >>

\* ---------------------------------------------------------- the client record
\* The handlers are written as functions of a record of the whole client, so
\* that a handler calling another (reconnect -> close -> stopPing, onopen ->
\* send) composes as in the source. Cur is the state a task starts in.

\* What a task was: its kind, and the transport, the id and the frame type it
\* was about (0 and "" where there is none).
Op(name, t, id, type) == [name |-> name, t |-> t, id |-> id, type |-> type]

Cur ==
    [ ws |-> ws, connectionParams |-> connectionParams,
      subscriptions |-> subscriptions, messageId |-> messageId,
      isConnecting |-> isConnecting, shouldReconnect |-> shouldReconnect,
      reconnectAttempts |-> reconnectAttempts, pingInterval |-> pingInterval,
      connectionPromise |-> connectionPromise,
      sock |-> sock, prom |-> prom, pingTimers |-> pingTimers,
      timers |-> timers, waiting |-> waiting,
      unsubscribed |-> unsubscribed,
      closedIds |-> closedIds,
      ret |-> NoPromise,     \* the promise the last connect() returned
      overflow |-> FALSE,    \* a bound of the model was exceeded
      sent |-> << >>, called |-> << >>, resolved |-> << >>, rejected |-> 0,
      opened |-> << >>, scheduled |-> << >> ]

Transports == DOMAIN sock
Created(s) == { t \in DOMAIN s.sock : s.sock[t] # "none" }
Live(s) ==
    { t \in DOMAIN s.sock : s.sock[t] \in {"connecting", "open", "failing", "closing"} }

PromState(s, p) ==
    IF p = ResolvedNow THEN "resolved"
    ELSE IF p = CtorFailed THEN "rejected"
    ELSE s.prom[p]

Msg(type, id, payload) == [type |-> type, id |-> id, payload |-> payload]
NoPayload == [none |-> TRUE]

\* send(message)
send(s, m) ==
    IF s.ws # 0 /\ s.sock[s.ws] = "open"
    THEN [s EXCEPT !.sent = Append(@, [on |-> s.ws, msg |-> m])]
    ELSE s

\* startPing(): the handle of the new interval is named after the transport
\* whose open event started it.
startPing(s, t) ==
    [s EXCEPT !.pingInterval = t, !.pingTimers = @ \cup {t}]

\* stopPing()
stopPing(s) ==
    IF s.pingInterval # 0
    THEN [s EXCEPT !.pingTimers = @ \ {s.pingInterval}, !.pingInterval = 0]
    ELSE s

Delay(attempts) == reconnectDelay * 2^(attempts - 1)

\* scheduleReconnect() with the exponent taken from the incremented counter
\* itself: the first delay is doubled.
scheduleReconnectOffByOne(s) ==
    LET n == s.reconnectAttempts + 1
        delay == reconnectDelay * 2^n
    IN [s EXCEPT !.reconnectAttempts = n,
                 !.timers = @ (+) SetToBag({delay}),
                 !.scheduled = Append(@, delay)]

\* scheduleReconnect(); timers is the bag of the delays of the pending timers.
scheduleReconnect(s) ==
    LET n == s.reconnectAttempts + 1
        delay == Delay(n)
    IN [s EXCEPT !.reconnectAttempts = n,
                 !.timers = @ (+) SetToBag({delay}),
                 !.scheduled = Append(@, delay)]

\* connect(): the synchronous part; the returned promise is left in ret.
connect(s) ==
    IF s.isConnecting \/ (s.ws # 0 /\ s.sock[s.ws] = "open")
    THEN [s EXCEPT !.ret = IF s.connectionPromise # NoPromise
                           THEN s.connectionPromise ELSE ResolvedNow]
    ELSE IF ~wsUrlValid
    THEN [s EXCEPT !.isConnecting = FALSE,
                   !.connectionPromise = CtorFailed, !.ret = CtorFailed]
    ELSE IF Cardinality(Created(s)) >= lim.transports
            \/ Cardinality(Live(s)) >= lim.live
    THEN [s EXCEPT !.overflow = TRUE]
    ELSE LET t == Cardinality(Created(s)) + 1
         IN [s EXCEPT !.isConnecting = TRUE, !.connectionPromise = t,
                      !.ws = t, !.sock[t] = "connecting",
                      !.prom[t] = "pending", !.ret = t,
                      !.opened = Append(@, t)]

\* The continuation of subscribe() with the id taken from the size of the
\* registry instead of the counter: ids restart once the registry is emptied.
resumeCountsEntries(s, i) ==
    LET w == s.waiting[i]
        s1 == [s EXCEPT !.waiting = RemoveAt(@, i)]
        id == Cardinality(DOMAIN s.subscriptions) + 1
    IN IF PromState(s, w.p) = "resolved"
       THEN send([s1 EXCEPT !.messageId = id,
                            !.subscriptions = Put(@, id, w.opts),
                            !.resolved = Append(@, id)],
                 Msg("start", id,
                     [query |-> w.opts.query, variables |-> w.opts.variables]))
       ELSE [s1 EXCEPT !.rejected = @ + 1]

\* The continuation of subscribe() registering the call whether or not the
\* connect it awaited succeeded, as a subscribe() that caught the failure would
resumeRegistersAnyway(s, i) ==
    LET w == s.waiting[i]
        s1 == [s EXCEPT !.waiting = RemoveAt(@, i)]
        id == s.messageId + 1
        s2 == [s1 EXCEPT !.messageId = id,
                         !.subscriptions = Put(@, id, w.opts)]
    IN IF PromState(s, w.p) = "resolved"
       THEN send([s2 EXCEPT !.resolved = Append(@, id)],
                 Msg("start", id,
                     [query |-> w.opts.query, variables |-> w.opts.variables]))
       ELSE [s2 EXCEPT !.rejected = @ + 1]

\* The continuation of subscribe() after `await this.connect()`, for the
\* suspended call at position i.
resume(s, i) ==
    LET w == s.waiting[i]
        s1 == [s EXCEPT !.waiting = RemoveAt(@, i)]
        id == s.messageId + 1
    IN IF PromState(s, w.p) = "resolved"
       THEN send([s1 EXCEPT !.messageId = id,
                            !.subscriptions = Put(@, id, w.opts),
                            !.resolved = Append(@, id)],
                 Msg("start", id,
                     [query |-> w.opts.query, variables |-> w.opts.variables]))
       ELSE [s1 EXCEPT !.rejected = @ + 1]

Settled(s) == { i \in 1..Len(s.waiting) : PromState(s, s.waiting[i].p) # "pending" }
Min(S) == CHOOSE x \in S : \A y \in S : x <= y

\* The microtasks a socket event leaves behind run before the next task.
RECURSIVE drain(_)
drain(s) == IF Settled(s) = {} THEN s ELSE drain(resume(s, Min(Settled(s))))

\* ws.onopen of transport t leaving the connect promise pending, as a client
\* that waits for connection_ack before it is ready would
onopenAwaitsAck(s, t) ==
    LET s1 == [s EXCEPT !.isConnecting = FALSE, !.reconnectAttempts = 0]
        s2 == send(s1, Msg("connection_init", 0, s1.connectionParams))
    IN startPing(s2, t)

\* ws.onopen of transport t sending start again for the oldest entry of the
\* registry, as a client that resubscribes after a reconnection would
onopenResubscribes(s, t) ==
    LET s1 == [s EXCEPT !.isConnecting = FALSE, !.reconnectAttempts = 0]
        s2 == send(s1, Msg("connection_init", 0, s1.connectionParams))
        ids == DOMAIN s2.subscriptions
        s3 == IF ids = {} THEN s2
              ELSE send(s2, Msg("start", Min(ids),
                                [query |-> s2.subscriptions[Min(ids)].query,
                                 variables |-> s2.subscriptions[Min(ids)].variables]))
        s4 == startPing(s3, t)
    IN [s4 EXCEPT !.prom[t] = IF @ = "pending" THEN "resolved" ELSE @]

\* ws.onopen of transport t leaving the attempt counter as it is
onopenKeepsCounter(s, t) ==
    LET s1 == [s EXCEPT !.isConnecting = FALSE]
        s2 == send(s1, Msg("connection_init", 0, s1.connectionParams))
        s3 == startPing(s2, t)
    IN [s3 EXCEPT !.prom[t] = IF @ = "pending" THEN "resolved" ELSE @]

\* ws.onopen of transport t
onopen(s, t) ==
    LET s1 == [s EXCEPT !.isConnecting = FALSE, !.reconnectAttempts = 0]
        s2 == send(s1, Msg("connection_init", 0, s1.connectionParams))
        s3 == startPing(s2, t)
    IN [s3 EXCEPT !.prom[t] = IF @ = "pending" THEN "resolved" ELSE @]

\* ws.onclose of transport t, dropping the registry with the transport
oncloseClearsRegistry(s, t) ==
    LET s1 == stopPing([s EXCEPT !.isConnecting = FALSE,
                                 !.subscriptions = EmptyMap])
    IN IF s1.shouldReconnect /\ s1.reconnectAttempts < maxReconnectAttempts
       THEN scheduleReconnect(s1)
       ELSE s1

\* ws.onclose of transport t
onclose(s, t) ==
    LET s1 == stopPing([s EXCEPT !.isConnecting = FALSE])
    IN IF s1.shouldReconnect /\ s1.reconnectAttempts < maxReconnectAttempts
       THEN scheduleReconnect(s1)
       ELSE s1

\* ws.onerror of transport t, scheduling a reconnection as ws.onclose does
onerrorSchedules(s, t) ==
    LET s1 == [s EXCEPT !.isConnecting = FALSE,
                        !.prom[t] = IF @ = "pending" THEN "rejected" ELSE @]
    IN IF s1.shouldReconnect /\ s1.reconnectAttempts < maxReconnectAttempts
       THEN scheduleReconnect(s1)
       ELSE s1

\* ws.onerror of transport t leaving the connect promise pending
onerrorKeepsPending(s, t) ==
    [s EXCEPT !.isConnecting = FALSE]

\* ws.onerror of transport t
onerror(s, t) ==
    [s EXCEPT !.isConnecting = FALSE,
              !.prom[t] = IF @ = "pending" THEN "rejected" ELSE @]

\* handleMessage(message) with an error frame ending the subscription, as a
\* complete frame does.
handleMessageErrorEnds(s, m) ==
    LET sub == IF m.id \in DOMAIN s.subscriptions
               THEN s.subscriptions[m.id].cbs ELSE {}
        cb == CASE m.type = "next" -> "onNext"
                [] m.type = "error" -> "onError"
                [] m.type = "complete" -> "onComplete"
                [] OTHER -> ""
        s1 == IF cb \in sub
              THEN [s EXCEPT !.called = Append(@, [id |-> m.id, cb |-> cb])]
              ELSE s
    IN CASE m.type = "ping" -> send(s, Msg("pong", 0, NoPayload))
         [] m.type \in {"error", "complete"} ->
              [s1 EXCEPT !.subscriptions = Del(@, m.id)]
         [] OTHER -> s1

\* handleMessage(message)
handleMessage(s, m) ==
    LET sub == IF m.id \in DOMAIN s.subscriptions
               THEN s.subscriptions[m.id].cbs ELSE {}
    IN CASE m.type = "connection_ack" -> s
         [] m.type = "ping" -> send(s, Msg("pong", 0, NoPayload))
         [] m.type = "pong" -> s
         [] m.type = "next" ->
              IF "onNext" \in sub
              THEN [s EXCEPT !.called = Append(@, [id |-> m.id, cb |-> "onNext"])]
              ELSE s
         [] m.type = "error" ->
              IF "onError" \in sub
              THEN [s EXCEPT !.called = Append(@, [id |-> m.id, cb |-> "onError"])]
              ELSE s
         [] m.type = "complete" ->
              LET s1 == IF "onComplete" \in sub
                        THEN [s EXCEPT !.called =
                                 Append(@, [id |-> m.id, cb |-> "onComplete"])]
                        ELSE s
              IN [s1 EXCEPT !.subscriptions = Del(@, m.id)]
         [] OTHER -> s

\* WebSocket.close() of transport t, as the platform carries it out: the
\* readyState leaves CONNECTING/OPEN at once, the events follow as tasks.
sockClose(s, t) ==
    [s EXCEPT !.sock[t] = CASE @ = "connecting" -> "failing"
                            [] @ = "open" -> "closing"
                            [] OTHER -> @]

\* close()
close(s) ==
    LET s1 == stopPing([s EXCEPT !.shouldReconnect = FALSE])
        s2 == IF s1.ws # 0 THEN [sockClose(s1, s1.ws) EXCEPT !.ws = 0] ELSE s1
    IN [s2 EXCEPT !.closedIds = @ \cup DOMAIN s.subscriptions,
                  !.subscriptions = EmptyMap]

\* reconnect()
reconnect(s) ==
    LET s1 == close(s)
    IN connect([s1 EXCEPT !.shouldReconnect = TRUE, !.reconnectAttempts = 0])

\* isConnected()
isConnected == ws # 0 /\ sock[ws] = "open"

\* updateConnectionParams(params) storing the patch in place of the merge
updateConnectionParamsReplaces(s, params) ==
    [s EXCEPT !.connectionParams = params]

\* updateConnectionParams(params)
updateConnectionParams(s, params) ==
    [s EXCEPT !.connectionParams =
        [k \in (DOMAIN @) \cup (DOMAIN params) |->
            IF k \in DOMAIN params THEN params[k] ELSE @[k]]]

\* The unsubscribe closure without the registry's delete
unsubscribeKeepsEntry(s, id) ==
    LET s1 == send(s, Msg("stop", id, NoPayload))
    IN [s1 EXCEPT !.unsubscribed = @ \cup {id}]

\* The unsubscribe closure giving its id back to the counter
unsubscribeReleasesId(s, id) ==
    LET s1 == send(s, Msg("stop", id, NoPayload))
    IN [s1 EXCEPT !.subscriptions = Del(@, id),
                  !.messageId = IF @ > 0 THEN @ - 1 ELSE @,
                  !.unsubscribed = @ \cup {id}]

\* The unsubscribe closure subscribe() returned for id
unsubscribe(s, id) ==
    LET s1 == send(s, Msg("stop", id, NoPayload))
    IN [s1 EXCEPT !.subscriptions = Del(@, id),
                  !.unsubscribed = @ \cup {id}]

\* The reconnect timer's callback; a rejection of connect() is caught.
timerCallback(s, tm) ==
    LET s1 == [s EXCEPT !.timers = @ (-) SetToBag({tm})]
    IN IF s1.shouldReconnect THEN connect(s1) ELSE s1

\* ------------------------------------------------------------------ actions
Commit(op, s) ==
    /\ ~s.overflow
    /\ ws' = s.ws
    /\ connectionParams' = s.connectionParams
    /\ subscriptions' = s.subscriptions
    /\ messageId' = s.messageId
    /\ isConnecting' = s.isConnecting
    /\ shouldReconnect' = s.shouldReconnect
    /\ reconnectAttempts' = s.reconnectAttempts
    /\ pingInterval' = s.pingInterval
    /\ connectionPromise' = s.connectionPromise
    /\ sock' = s.sock
    /\ prom' = s.prom
    /\ pingTimers' = s.pingTimers
    /\ timers' = s.timers
    /\ waiting' = s.waiting
    /\ closures' = CASE op.name \in {"open", "reconnect"} -> 0
                      [] op.name = "closed" /\ shouldReconnect -> closures + 1
                      [] OTHER -> closures
    /\ schedDelays' = (IF op.name \in {"open", "reconnect"} THEN << >> ELSE schedDelays)
                        \o s.scheduled
    /\ unsubscribed' = s.unsubscribed
    /\ closedIds' = s.closedIds
    /\ step' = [op |-> op, sent |-> s.sent, called |-> s.called,
                resolved |-> s.resolved, rejected |-> s.rejected,
                opened |-> s.opened, scheduled |-> s.scheduled]
    /\ UNCHANGED << wsUrlValid, lim, reqVars >>

\* No promise continuation is due: socket events and timers are tasks, and a
\* task starts only when the microtask queue is empty.
Idle == Settled(Cur) = {}

Called == calls.subscribe + calls.close + calls.reconnect + calls.update

\* subscribe(options), up to its await
Subscribe(o) ==
    /\ Called < lim.calls
    /\ calls.subscribe < lim.subscribes
    /\ calls' = [calls EXCEPT !.subscribe = @ + 1]
    /\ LET s1 == connect(Cur)
       IN Commit(Op("subscribe", 0, 0, ""),
                 [s1 EXCEPT !.waiting = Append(@, [opts |-> o, p |-> s1.ret])])

\* subscribe() resumes, its promise having been settled when it was called
Resume ==
    /\ ~Idle
    /\ Commit(Op("resume", 0, 0, ""), resume(Cur, Min(Settled(Cur))))
    /\ UNCHANGED calls

\* The unsubscribe closure of id is called, for the first time or "again"
Unsubscribe(id) ==
    /\ id \in 1..messageId
    /\ Commit(Op("unsubscribe", 0, id, IF id \in unsubscribed THEN "again" ELSE ""),
              unsubscribe(Cur, id))
    /\ UNCHANGED calls

Close ==
    /\ Called < lim.calls
    /\ calls' = [calls EXCEPT !.close = @ + 1]
    /\ Commit(Op("close", 0, 0, ""), close(Cur))

Reconnect ==
    /\ Called < lim.calls
    /\ calls' = [calls EXCEPT !.reconnect = @ + 1]
    /\ Commit(Op("reconnect", 0, 0, ""), reconnect(Cur))

UpdateConnectionParams(p) ==
    /\ Called < lim.calls
    /\ calls' = [calls EXCEPT !.update = @ + 1]
    /\ Commit(Op("update", 0, 0, ""), updateConnectionParams(Cur, p))

SocketOpen(t) ==
    /\ Idle
    /\ sock[t] = "connecting"
    /\ \E s \in { drain(onopen([Cur EXCEPT !.sock[t] = "open"], t)) } :
          Commit(Op("open", t, 0, ""), s)
    /\ UNCHANGED calls

SocketError(t) ==
    /\ Idle
    /\ sock[t] \in {"connecting", "open", "failing"}
    /\ \E s \in { drain(onerror([Cur EXCEPT !.sock[t] = "closing"], t)) } :
          Commit(Op("error", t, 0, ""), s)
    /\ UNCHANGED calls

SocketClose(t) ==
    /\ Idle
    /\ sock[t] \in {"open", "closing"}
    /\ Commit(Op("closed", t, 0, ""),
              drain(onclose([Cur EXCEPT !.sock[t] = "closed"], t)))
    /\ UNCHANGED calls

\* ws.onmessage of transport t, for a frame that parses and is well formed
\* (an error frame carries a payload object).
SocketMessage(t, type, id) ==
    /\ Idle
    /\ sock[t] = "open"
    /\ Commit(Op("message", t, id, type),
              handleMessage(Cur, Msg(type, id, NoPayload)))
    /\ UNCHANGED calls

PingTick(h) ==
    /\ Idle
    /\ h \in pingTimers
    /\ Commit(Op("ping", h, 0, ""), send(Cur, Msg("ping", 0, NoPayload)))
    /\ UNCHANGED calls

ReconnectTimer(tm) ==
    /\ Idle
    /\ BagIn(tm, timers)
    /\ Commit(Op("timer", 0, 0, ""), timerCallback(Cur, tm))
    /\ UNCHANGED calls

\* ------------------------------------------------- graphqlRequest: values
\* JavaScript values are tagged records; an object keeps its keys in insertion
\* order, as Object.entries and JSON.stringify see them.
Undefined == [tag |-> "undefined"]
Null == [tag |-> "null"]
Num(n) == [tag |-> "number", val |-> n]
Str(x) == [tag |-> "string", str |-> x]
File(name) == [tag |-> "File", name |-> name]
FileList(items) == [tag |-> "FileList", items |-> items]
Arr(items) == [tag |-> "Array", items |-> items]
Obj(keys, vals) == [tag |-> "Object", keys |-> keys, vals |-> vals]
EmptyObj == Obj(<< >>, << >>)
BigInt == [tag |-> "bigint"]
Error(name, message) == [tag |-> "Error", name |-> name, message |-> Str(message)]
\* An object that is not a File and carries name, type and size
FileLike(name) ==
    Obj(<< "name", "type", "size" >>, << Str(name), Str("image/png"), Num(1) >>)

Has(o, k) == o.tag = "Object" /\ \E i \in 1..Len(o.keys) : o.keys[i] = k
Get(o, k) ==
    IF Has(o, k) THEN o.vals[CHOOSE i \in 1..Len(o.keys) : o.keys[i] = k]
    ELSE Undefined
\* { ...o, [k]: v }
Spread(o, k, v) ==
    IF Has(o, k)
    THEN Obj(o.keys, [i \in 1..Len(o.keys) |-> IF o.keys[i] = k THEN v ELSE o.vals[i]])
    ELSE Obj(Append(o.keys, k), Append(o.vals, v))
\* !value
Falsy(v) ==
    \/ v.tag \in {"undefined", "null"}
    \/ v.tag = "number" /\ v.val = 0
    \/ v.tag = "string" /\ v.str = ""
\* value && typeof value === "object"
IsObject(v) == v.tag \in {"Object", "Array", "File", "FileList"}
\* key in value, for the keys the walker asks about
In(k, v) ==
    CASE v.tag = "File" -> k \in {"name", "type", "size"}
      [] v.tag \in {"Array", "FileList"} -> k = "length"
      [] v.tag = "Object" -> Has(v, k)
      [] OTHER -> FALSE
\* Array.from(value) of an array-like value
ArrayFrom(v) ==
    CASE v.tag \in {"Array", "FileList"} -> v.items
      [] v.tag = "Object" /\ Has(v, "length") /\ Get(v, "length").tag = "number" ->
           [i \in 1..Get(v, "length").val |-> Get(v, ToString(i - 1))]
      [] OTHER -> << >>

\* JSON.parse(JSON.stringify(value)): what the peer reads. A File and a
\* FileList have no enumerable data of their own; undefined becomes null in
\* an array and drops its key in an object.
RECURSIVE Json(_)
Json(v) ==
    CASE v.tag = "File" -> EmptyObj
      [] v.tag = "FileList" ->
           Obj([i \in 1..Len(v.items) |-> ToString(i - 1)],
               [i \in 1..Len(v.items) |-> Json(v.items[i])])
      [] v.tag = "Array" ->
           Arr([i \in 1..Len(v.items) |->
                  IF v.items[i].tag = "undefined" THEN Null ELSE Json(v.items[i])])
      [] v.tag = "Object" ->
           LET keep == SelectSeq([i \in 1..Len(v.keys) |-> i],
                                 LAMBDA i : v.vals[i].tag # "undefined")
           IN Obj([j \in 1..Len(keep) |-> v.keys[keep[j]]],
                  [j \in 1..Len(keep) |-> Json(v.vals[keep[j]])])
      [] OTHER -> v

\* JSON.stringify(value) throws: a BigInt has no JSON form
RECURSIVE Unserializable(_)
Unserializable(v) ==
    CASE v.tag = "bigint" -> TRUE
      [] v.tag = "Array" -> \E i \in 1..Len(v.items) : Unserializable(v.items[i])
      [] v.tag = "Object" -> \E i \in 1..Len(v.vals) : Unserializable(v.vals[i])
      [] OTHER -> FALSE

\* a || b
Or(a, b) == IF Falsy(a) THEN b ELSE a

\* value?.[k]
Prop(v, k) ==
    CASE v.tag = "Error" /\ k = "message" -> v.message
      [] OTHER -> Get(v, k)

\* String(value) throws: an object parsed from JSON whose own "toString" is
\* not callable has no primitive form (Object.prototype.valueOf returns the
\* object itself)
StringThrows(v) == v.tag = "Object" /\ Has(v, "toString")

\* String(value), where it does not throw
String(v) ==
    CASE v.tag = "string" -> v
      [] v.tag = "number" -> Str(ToString(v.val))
      [] v.tag = "Error" ->
           IF v.message.str = "" THEN Str(v.name)
           ELSE Str(v.name \o ": " \o v.message.str)
      [] v.tag \in {"undefined", "null"} -> Str(v.tag)
      [] OTHER -> Str("[object Object]")

\* ------------------------------------------------- graphqlRequest: inputs
f1 == File("f1")
f2 == File("f2")
f3 == File("f3")
\* options.files: File[] | FileList | File, or absent
RequestFiles ==
    { Undefined, f1, Arr(<< >>), Arr(<< f1 >>), Arr(<< f1, f2 >>),
      FileList(<< >>), FileList(<< f1, f2 >>) }
One(k, v) == Obj(<< k >>, << v >>)
Two(k, v, l, w) == Obj(<< k, l >>, << v, w >>)
\* options.variables
RequestVariables ==
    { Undefined,
      Null,
      EmptyObj,
      Two("a", Num(1), "b", Arr(<< Num(1), Num(2), Num(3) >>)),
      One("id", Num(7)),
      One("avatar", f3),
      Two("id", Num(7), "avatar", f3),
      Two("avatar", f3, "cover", f1),
      One("input", One("doc", f3)),
      One("docs", Arr(<< f3, Null, f1 >>)),
      One("docs", FileList(<< f3 >>)),
      One("docs", FileList(<< >>)),
      One("files", Arr(<< f3 >>)),
      One("files", Null),
      One("files", Arr(<< Null, Null >>)),
      Two("files", Arr(<< Null >>), "avatar", f3),
      One("avatar", FileLike("a.png")),
      One("box", One("length", Num(2))),
      Two("box", One("length", Num(2)), "avatar", f3),
      One("a.b", f3),
      One("n", BigInt),
      Two("a", One("b", f1), "c", Arr(<< f2, One("d", f3) >>)),
      One("docs", FileList(<< f1, f2 >>)),
      One("box", Obj(<< "length", "0", "1" >>, << Num(2), f1, f2 >>)),
      One("box", Obj(<< "length", "doc" >>, << Num(1), f3 >>)) }
RequestOptions ==
    [ query : { Str("mutation") }, variables : RequestVariables, files : RequestFiles ]
NoOptions == [tag |-> "none"]     \* graphqlRequest has not been called
NoRequest == [body |-> "none"]    \* nothing has been handed to fetch
NoWalk == [cleanVariables |-> "none"]   \* extractFiles has not been called
\* The api keys and the header layers of a call
RequestContexts ==
    [ apiKey : { Undefined, Str("call-key") },
      defaultApiKey : { Undefined, Str("default-key") },
      defaultHeaders : { Undefined,
                         Two("x-api-key", Str("d"), "authorization", Str("d")) },
      headers : { EmptyObj,
                  One("authorization", Str("c")),
                  Two("x-api-key", Str("c"), "Content-Type", Str("text/plain")) } ]
NoContext == [tag |-> "none"]
NoReply == [settled |-> "none"]
\* What fetch answers: it rejects, or it resolves to a response with a status
\* and a body that is JSON text or is not.
Response(ok, statusText, json, body) ==
    [kind |-> "response", ok |-> ok, statusText |-> statusText,
     json |-> json, body |-> body]
FetchAnswers ==
    { [kind |-> "rejects", error |-> Error("TypeError", "Failed to fetch")],
      Response(TRUE, "OK", TRUE, One("data", One("id", Num(7)))),
      Response(TRUE, "OK", TRUE,
               One("errors", Arr(<< One("message", Str("denied")) >>))),
      Response(TRUE, "OK", TRUE, One("data", Null)),
      Response(TRUE, "OK", FALSE, Str("<html>")),
      Response(FALSE, "Bad Request", TRUE, One("error", Str("bad query"))),
      Response(FALSE, "Bad Request", TRUE, One("message", Str("bad input"))),
      Response(FALSE, "Bad Request", TRUE, One("error", One("message", Str("deep")))),
      Response(FALSE, "Bad Request", TRUE,
               One("errors", Arr(<< One("message", Str("denied")) >>))),
      Response(FALSE, "", TRUE, Null),
      Response(FALSE, "Bad Request", TRUE, One("error", One("code", Num(5)))),
      Response(FALSE, "Bad Request", TRUE, One("error", One("toString", Num(1)))),
      Response(FALSE, "Bad Gateway", FALSE, Str("upstream down")),
      Response(FALSE, "Bad Gateway", FALSE, Str("")) }
NoAnswer == [kind |-> "none"]     \* fetch was not called

\* -------------------------------------------- graphqlRequest: fileUpload.ts
getFilesLength(files) ==
    CASE Falsy(files) -> 0
      [] files.tag = "Array" -> Len(files.items)
      [] files.tag = "FileList" -> Len(files.items)
      [] OTHER -> 1

convertToFileArray(files) ==
    CASE Falsy(files) -> << >>
      [] files.tag = "Array" -> files.items
      [] files.tag = "FileList" -> files.items
      [] files.tag = "File" -> << files >>
      [] OTHER -> << >>

RECURSIVE hasFileValue(_)
hasFileValue(value) ==
    CASE value.tag = "File" -> TRUE
      [] value.tag = "FileList" -> TRUE
      [] IsObject(value) /\ In("name", value) /\ In("type", value)
           /\ In("size", value) -> TRUE
      [] value.tag = "Array" ->
           \E i \in 1..Len(value.items) : hasFileValue(value.items[i])
      [] value.tag = "Object" ->
           \E i \in 1..Len(value.vals) : hasFileValue(value.vals[i])
      [] OTHER -> FALSE

hasFiles(variables) == IF Falsy(variables) THEN FALSE ELSE hasFileValue(variables)

isFileObject(value) ==
    \/ value.tag = "File"
    \/ IsObject(value) /\ In("name", value) /\ In("type", value) /\ In("size", value)

isFileListObject(value) ==
    \/ value.tag = "FileList"
    \/ IsObject(value) /\ In("length", value)
          /\ (value.tag = "Object" => Get(value, "length").tag = "number")

\* processValue(value, path), with the closure's files and map passed in acc
\* and handed back beside the returned value; processItems and processEntries
\* are its two loops.
RECURSIVE processValue(_, _, _), processItems(_, _, _, _), processEntries(_, _, _, _)
\* processValue(value, path) numbering the files from 1
processValueOneBased(value, path, acc) ==
    CASE isFileObject(value) ->
           LET index == Len(acc.files) + 1
           IN [value |-> Null,
               files |-> Append(acc.files, value),
               map |-> Put(acc.map, ToString(index), << "variables." \o path >>)]
      [] isFileListObject(value) ->
           LET r == processItems(ArrayFrom(value), path, 1, acc)
           IN [value |-> Arr(r.values), files |-> r.files, map |-> r.map]
      [] value.tag = "Array" ->
           LET r == processItems(value.items, path, 1, acc)
           IN [value |-> Arr(r.values), files |-> r.files, map |-> r.map]
      [] value.tag = "Object" ->
           LET r == processEntries(value, path, 1, acc)
           IN [value |-> Obj(value.keys, r.values), files |-> r.files, map |-> r.map]
      [] OTHER -> [value |-> value, files |-> acc.files, map |-> acc.map]

processValue(value, path, acc) ==
    CASE isFileObject(value) ->
           LET index == Len(acc.files)
           IN [value |-> Null,
               files |-> Append(acc.files, value),
               map |-> Put(acc.map, ToString(index), << "variables." \o path >>)]
      [] isFileListObject(value) ->
           LET r == processItems(ArrayFrom(value), path, 1, acc)
           IN [value |-> Arr(r.values), files |-> r.files, map |-> r.map]
      [] value.tag = "Array" ->
           LET r == processItems(value.items, path, 1, acc)
           IN [value |-> Arr(r.values), files |-> r.files, map |-> r.map]
      [] value.tag = "Object" ->
           LET r == processEntries(value, path, 1, acc)
           IN [value |-> Obj(value.keys, r.values), files |-> r.files, map |-> r.map]
      [] OTHER -> [value |-> value, files |-> acc.files, map |-> acc.map]

processItems(items, path, i, acc) ==
    IF i > Len(items) THEN [values |-> << >>, files |-> acc.files, map |-> acc.map]
    ELSE LET r == processValue(items[i], path \o "." \o ToString(i - 1), acc)
             rest == processItems(items, path, i + 1, [files |-> r.files, map |-> r.map])
         IN [values |-> << r.value >> \o rest.values,
             files |-> rest.files, map |-> rest.map]

processEntries(o, path, i, acc) ==
    IF i > Len(o.keys) THEN [values |-> << >>, files |-> acc.files, map |-> acc.map]
    ELSE LET r == processValue(o.vals[i],
                               IF path # "" THEN path \o "." \o o.keys[i] ELSE o.keys[i],
                               acc)
             rest == processEntries(o, path, i + 1, [files |-> r.files, map |-> r.map])
         IN [values |-> << r.value >> \o rest.values,
             files |-> rest.files, map |-> rest.map]

extractFiles(variables) ==
    LET r == processValue(variables, "", [files |-> << >>, map |-> EmptyMap])
    IN [files |-> r.files, map |-> r.map, cleanVariables |-> r.value]

\* Object.keys(map) of an object whose keys are array indices: ascending
ObjectKeys(map) ==
    LET num(k) == CHOOSE n \in 0..MaxFileParts : ToString(n) = k
        below(k) == Cardinality({ j \in DOMAIN map : num(j) < num(k) })
    IN [i \in 1..Cardinality(DOMAIN map) |->
          CHOOSE k \in DOMAIN map : below(k) = i - 1]

\* ------------------------------------------- graphqlRequest: body construction
\* The `if (options.files ...)` block: files pushed, map entries, variables
explicitFiles(options) ==
    LET cleanVariables == IF Falsy(options.variables) THEN EmptyObj
                          ELSE options.variables
    IN IF ~Falsy(options.files) /\ getFilesLength(options.files) > 0
       THEN LET filesArray == convertToFileArray(options.files)
            IN [filesToProcess |-> filesArray,
                fileMap |-> [k \in { ToString(i - 1) : i \in 1..Len(filesArray) } |->
                               << "variables.files." \o k >>],
                cleanVariables |->
                    IF Falsy(Get(cleanVariables, "files"))
                    THEN Spread(cleanVariables, "files",
                                Arr([i \in 1..Len(filesArray) |-> Null]))
                    ELSE cleanVariables]
       ELSE [filesToProcess |-> << >>, fileMap |-> EmptyMap,
             cleanVariables |-> cleanVariables]

\* The `if (options.variables && hasFiles(...))` block, after the first
embeddedFiles(options, b) ==
    IF ~Falsy(options.variables) /\ hasFiles(options.variables)
    THEN LET extracted == extractFiles(options.variables)
             startIndex == Len(b.filesToProcess)
             keys == ObjectKeys(extracted.map)
         IN [filesToProcess |-> b.filesToProcess \o extracted.files,
             fileMap |->
                 [k \in DOMAIN b.fileMap
                         \cup { ToString(startIndex + i - 1) : i \in 1..Len(extracted.files) } |->
                    IF \E i \in 1..Len(extracted.files) : k = ToString(startIndex + i - 1)
                    THEN extracted.map[keys[CHOOSE i \in 1..Len(extracted.files) :
                                                k = ToString(startIndex + i - 1)]]
                    ELSE b.fileMap[k]],
             cleanVariables |-> extracted.cleanVariables]
    ELSE b

hasFilesToUpload(options) ==
    \/ ~Falsy(options.files) /\ getFilesLength(options.files) > 0
    \/ ~Falsy(options.variables) /\ hasFiles(options.variables)

\* JSON.stringify threw while the body was being built: fetch is not called
StringifyThrew ==
    [body |-> "TypeError", operations |-> Undefined, map |-> EmptyMap, parts |-> << >>]

\* The request graphqlRequest builds for fetch: a multipart form of
\* operations, map and one part per file, or a JSON body.
graphqlRequest(options) ==
    IF hasFilesToUpload(options)
    THEN LET b == embeddedFiles(options, explicitFiles(options))
         IN IF Unserializable(b.cleanVariables) THEN StringifyThrew ELSE
            [body |-> "FormData",
             operations |-> Json(Obj(<< "query", "variables" >>,
                                     << options.query, b.cleanVariables >>)),
             map |-> b.fileMap,
             parts |-> b.filesToProcess]
    ELSE IF Unserializable(options.variables) THEN StringifyThrew ELSE
         [body |-> "JSON",
          operations |-> Json(Obj(<< "query", "variables", "files" >>,
                                  << options.query, options.variables, options.files >>)),
          map |-> EmptyMap,
          parts |-> << >>]

\* What the `if (!response.ok)` block throws
thrownForStatus(response) ==
    LET errorData == IF response.json THEN response.body
                     ELSE One("error", response.body)
    IN Or(Prop(errorData, "error"),
          Or(Prop(errorData, "message"),
             Or(Prop(Prop(errorData, "error"), "message"),
                Str(response.statusText))))

\* The value the try block throws, if it throws
NoThrow == [tag |-> "none"]
thrown(request, answer) ==
    CASE request.body = "TypeError" ->
           Error("TypeError", "Do not know how to serialize a BigInt")
      [] answer.kind = "rejects" -> answer.error
      [] ~answer.ok -> thrownForStatus(answer)
      [] ~answer.json -> Error("SyntaxError", "Unexpected token")
      [] OTHER -> NoThrow

\* The catch block: the value graphqlRequest resolves to for a thrown error
normalizeError(error) ==
    Two("data", Undefined,
        "errors", Arr(<< One("message",
                             Or(Prop(error, "message"),
                                Or(String(error), Str("An error occurred")))) >>))

\* How the promise of graphqlRequest settles, given the request it built and
\* the answer of fetch
graphqlResponse(request, answer) ==
    LET error == thrown(request, answer)
    IN CASE error.tag = "none" -> [settled |-> "resolved", value |-> answer.body]
         [] Falsy(Prop(error, "message")) /\ StringThrows(error) ->
              [settled |-> "rejected",
               value |-> Error("TypeError", "Cannot convert object to primitive value")]
         [] OTHER -> [settled |-> "resolved", value |-> normalizeError(error)]

\* { ...o, ...p }
RECURSIVE SpreadAll(_, _)
SpreadAll(o, p) ==
    IF p.keys = << >> THEN o
    ELSE SpreadAll(Spread(o, p.keys[1], p.vals[1]), Obj(Tail(p.keys), Tail(p.vals)))

\* The layers in the order { key, ...{ ...headers, ...defaultHeaders } }: a
\* default header overrides the per-call header of the same name
fetchHeadersDefaultsWin(ctx, multipart) ==
    LET effectiveApiKey == Or(ctx.apiKey, ctx.defaultApiKey)
        contentType == IF multipart THEN EmptyObj
                       ELSE One("Content-Type", Str("application/json"))
        apiKeyHeader == IF Falsy(effectiveApiKey) THEN EmptyObj
                        ELSE One("x-api-key", effectiveApiKey)
    IN SpreadAll(SpreadAll(SpreadAll(contentType, apiKeyHeader), ctx.headers),
                 Or(ctx.defaultHeaders, EmptyObj))

\* multipartHeaders and jsonHeaders
fetchHeaders(ctx, multipart) ==
    LET effectiveApiKey == Or(ctx.apiKey, ctx.defaultApiKey)
        contentType == IF multipart THEN EmptyObj
                       ELSE One("Content-Type", Str("application/json"))
        apiKeyHeader == IF Falsy(effectiveApiKey) THEN EmptyObj
                        ELSE One("x-api-key", effectiveApiKey)
    IN SpreadAll(SpreadAll(SpreadAll(contentType, apiKeyHeader),
                           Or(ctx.defaultHeaders, EmptyObj)),
                 ctx.headers)

\* graphqlRequest({url, options, headers, apiKey}): the request it builds, the
\* headers it gives to fetch, and how it settles on the answer of fetch
GraphqlRequest ==
    /\ reqIn # NoOptions
    /\ reqOut = NoRequest
    /\ reqOut' = graphqlRequest(reqIn)
    /\ \E answer \in FetchAnswers :
          reqReply' = [headers |-> IF reqOut'.body = "TypeError" THEN EmptyObj
                                  ELSE fetchHeaders(reqCtx, reqOut'.body = "FormData"),
                       answer |-> IF reqOut'.body = "TypeError" THEN NoAnswer ELSE answer,
                       settled |-> graphqlResponse(reqOut', answer).settled,
                       value |-> graphqlResponse(reqOut', answer).value]
    /\ UNCHANGED << reqIn, reqCtx, walked, exec, wsVars >>

\* ------------------------------------------------------------ executeGraphQL
Urls == { Undefined, Str("https://api.example/graphql") }
NoExec == [settled |-> "none"]    \* executeGraphQL has not been called

\* new Error(message)
NewError(message) ==
    [tag |-> "Error", name |-> "Error",
     message |-> IF message.tag = "undefined" THEN Str("") ELSE String(message)]

\* The try block of executeGraphQL after graphqlRequest settled: the data it
\* returns, or the error it throws
unwrap(reply) ==
    LET response == reply.value
        errors == Prop(response, "errors")
    IN CASE reply.settled = "rejected" -> [threw |-> TRUE, value |-> reply.value]
         [] response.tag \in { "null", "undefined" } ->
              [threw |-> TRUE,
               value |-> Error("TypeError", "Cannot read properties of null")]
         [] ~Falsy(errors) ->
              [threw |-> TRUE,
               value |-> IF errors.tag = "Array" /\ errors.items # << >>
                              /\ errors.items[1].tag \notin { "null", "undefined" }
                         THEN NewError(Prop(errors.items[1], "message"))
                         ELSE Error("TypeError", "Cannot read properties of undefined")]
         [] Falsy(Prop(response, "data")) ->
              [threw |-> TRUE,
               value |-> Error("Error", "No data returned from GraphQL response.")]
         [] OTHER -> [threw |-> FALSE, value |-> Prop(response, "data")]

\* The catch block of executeGraphQL: what the call settles as, given the
\* request graphqlRequest built, the headers it sent and what the try block
\* came to
settle(url, request, headers, outcome) ==
    [url |-> url, request |-> request, headers |-> headers,
     settled |-> IF outcome.threw THEN "rejected" ELSE "resolved",
     value |-> IF outcome.threw
               THEN NewError(Or(Prop(outcome.value, "message"),
                                Str("Unknown error occurred.")))
               ELSE outcome.value]

\* The call `graphqlRequest({url, options, headers, apiKey: defaultApiKey})`
\* and what follows it
issue(url, inner, request, answer) ==
    settle(url, request,
           IF request.body = "TypeError" THEN EmptyObj
           ELSE fetchHeaders(inner, request.body = "FormData"),
           unwrap(graphqlResponse(request, answer)))

\* executeGraphQL({query, variables, headers, url}) of an instance made with
\* defaultApiUrl and defaultApiKey: the request graphqlRequest builds for it,
\* the headers, and how the promise settles
executeGraphQL(params, ctx, url, defaultApiUrl, answer) ==
    LET effectiveUrl == IF url = Undefined THEN defaultApiUrl ELSE url
    IN IF Falsy(effectiveUrl)
       THEN [url |-> effectiveUrl, request |-> NoRequest, headers |-> EmptyObj,
             settled |-> "rejected",
             value |-> Error("Error", "GraphQL API URL is required. Either provide it in the request or set a default URL.")]
       ELSE issue(effectiveUrl,
                  [apiKey |-> ctx.defaultApiKey, defaultApiKey |-> ctx.defaultApiKey,
                   defaultHeaders |-> Undefined, headers |-> ctx.headers],
                  graphqlRequest([query |-> params.query,
                                  variables |-> params.variables,
                                  files |-> Undefined]),
                  answer)

ExecuteGraphQL ==
    /\ reqIn # NoOptions
    /\ exec = NoExec
    /\ \E url \in Urls, defaultApiUrl \in Urls, answer \in FetchAnswers :
          exec' = executeGraphQL(reqIn, reqCtx, url, defaultApiUrl, answer)
    /\ UNCHANGED << reqIn, reqOut, walked, reqCtx, reqReply, wsVars >>

\* extractFiles(variables), the exported walker, called on its own
ExtractFiles ==
    /\ reqIn # NoOptions
    /\ walked = NoWalk
    /\ walked' = extractFiles(reqIn.variables)
    /\ UNCHANGED << reqIn, reqOut, reqCtx, reqReply, exec, wsVars >>

\* ---------------------------------------------------------- specification
Limits ==
    [ transports |-> MaxTransports, subscribes |-> MaxSubscribes,
      calls |-> MaxCalls, live |-> MaxTransports ]
WideLimits ==
    [ transports |-> WideTransports, subscribes |-> WideSubscribes,
      calls |-> WideCalls, live |-> WideTransports ]
DeepLimits ==
    [ transports |-> DeepTransports, subscribes |-> DeepSubscribes,
      calls |-> DeepCalls, live |-> DeepLive ]

StormLimits ==
    [ transports |-> StormTransports, subscribes |-> 0,
      calls |-> StormCalls, live |-> StormTransports ]

Constructed(l) ==
    /\ lim = l
    /\ ws = 0
    /\ connectionParams \in ParamMaps
    /\ subscriptions = EmptyMap
    /\ messageId = 0
    /\ isConnecting = FALSE
    /\ shouldReconnect = TRUE
    /\ reconnectAttempts = 0
    /\ pingInterval = 0
    /\ connectionPromise = NoPromise
    /\ sock = [t \in 1..l.transports |-> "none"]
    /\ prom = [t \in 1..l.transports |-> "none"]
    /\ pingTimers = {}
    /\ timers = EmptyBag
    /\ waiting = << >>
    /\ wsUrlValid \in BOOLEAN
    /\ step = [op |-> Op("init", 0, 0, ""), sent |-> << >>, called |-> << >>,
               resolved |-> << >>, rejected |-> 0, opened |-> << >>,
               scheduled |-> << >>]
    /\ closures = 0
    /\ schedDelays = << >>
    /\ unsubscribed = {}
    /\ closedIds = {}
    /\ calls = [subscribe |-> 0, close |-> 0, reconnect |-> 0, update |-> 0]

\* A client, and no HTTP request made
Start(l) ==
    /\ Constructed(l)
    /\ reqIn = NoOptions /\ reqOut = NoRequest /\ walked = NoWalk
    /\ reqCtx = NoContext /\ reqReply = NoReply /\ exec = NoExec

Init == Start(Limits)

Next ==
    \/ \E o \in SubscriptionOptions : Subscribe(o)
    \/ Resume
    \/ \E id \in 1..lim.subscribes : Unsubscribe(id)
    \/ Close
    \/ Reconnect
    \/ \E p \in ParamPatches : UpdateConnectionParams(p)
    \/ \E t \in Transports : SocketOpen(t)
    \/ \E t \in Transports : SocketError(t)
    \/ \E t \in Transports : SocketClose(t)
    \/ \E t \in Transports, type \in ControlTypes : SocketMessage(t, type, 0)
    \/ \E t \in Transports, type \in RoutedTypes, id \in 1..lim.subscribes :
           SocketMessage(t, type, id)
    \/ \E h \in Transports : PingTick(h)
    \/ \E tm \in BagToSet(timers) : ReconnectTimer(tm)

vars == << wsVars, reqVars >>

Spec == Init /\ [][Next]_vars

\* The same machine with the scheduling of the event loop: a promise
\* continuation that is due runs, and a transport that is connecting or
\* failing reports open or error.
Fairness ==
    /\ WF_vars(Resume)
    /\ \A t \in 1..MaxTransports :
          WF_vars(/\ sock[t] \in { "connecting", "failing" }
                  /\ (SocketOpen(t) \/ SocketError(t)))
SpecFair == Init /\ [][Next]_vars /\ Fairness

\* The same machine under wider bounds: three transports, three calls.
SpecWide == Start(WideLimits) /\ [][Next]_vars

\* The same machine along the whole backoff chain, with one call.
SpecBackoff == Start(DeepLimits) /\ [][Next]_vars

\* A caller that only calls reconnect(), with a peer that always accepts: each
\* socket opens, and the sockets the client has given up close one by one,
\* oldest first.
NextStorm ==
    \/ Reconnect
    \/ \E t \in Transports : SocketOpen(t)
    \/ \E t \in Transports \ {ws} :
          /\ \A u \in 1..(t - 1) : sock[u] = "closed"
          /\ SocketClose(t)

SpecStorm == Start(StormLimits) /\ [][NextStorm]_vars

\* One graphqlRequest call on any of the request inputs
InitRequest ==
    /\ Constructed(Limits)
    /\ reqIn \in RequestOptions
    /\ reqOut = NoRequest
    /\ walked = NoWalk
    /\ reqCtx \in RequestContexts
    /\ reqReply = NoReply
    /\ exec = NoExec
NextRequest == GraphqlRequest \/ ExtractFiles
SpecRequest == InitRequest /\ [][NextRequest]_vars

\* One call of executeGraphQL, over the same parameters, with and without a
\* url of its own and a default url. executeGraphQL takes no api key of its
\* own and its factory takes no default headers.
InitExecute ==
    /\ InitRequest
    /\ reqCtx.apiKey = Undefined
    /\ reqCtx.defaultHeaders = Undefined
NextExecute == ExecuteGraphQL
SpecExecute == InitExecute /\ [][NextExecute]_vars

\* ------------------------------------------------------------------ claims
Sent(type) ==
    { i \in 1..Len(step.sent) : step.sent[i].msg.type = type }
ConnectingOrOpen == { t \in Transports : sock[t] \in {"connecting", "open"} }
Expect(id, cb, cbs) == IF cb \in cbs THEN << [id |-> id, cb |-> cb] >> ELSE << >>

\* C1: with reconnection enabled, the n-th of n consecutive transport closures
\* (n up to the ceiling) schedules one reconnect timer whose delay is
\* reconnectDelay * 2^(n-1); three closures schedule 1000, 2000, 4000.
C1_BackoffSchedule ==
    /\ Len(schedDelays) =
          IF closures <= maxReconnectAttempts THEN closures
          ELSE maxReconnectAttempts
    /\ \A n \in 1..Len(schedDelays) : schedDelays[n] = reconnectDelay * 2^(n - 1)
    /\ Len(schedDelays) >= 3 => SubSeq(schedDelays, 1, 3) = << 1000, 2000, 4000 >>
    /\ (step.op.name = "closed" /\ shouldReconnect
          /\ closures <= maxReconnectAttempts)
        => step.scheduled = << reconnectDelay * 2^(closures - 1) >>

C1_Witness ==
    /\ step.op.name = "closed"
    /\ closures = maxReconnectAttempts
    /\ step.scheduled = << 512000 >>
    /\ SubSeq(schedDelays, 1, 3) = << 1000, 2000, 4000 >>

\* C2: the attempt counter never exceeds maxReconnectAttempts, and a transport
\* closure that occurs while the counter equals the ceiling schedules no
\* reconnect timer and leaves isConnected() false.
C2_Ceiling ==
    [][ /\ reconnectAttempts' <= maxReconnectAttempts
        /\ (step'.op.name = "closed" /\ reconnectAttempts = maxReconnectAttempts)
           => /\ timers' = timers
              /\ step'.scheduled = << >>
              /\ ~isConnected' ]_vars

\* C3: once a subscription's unsubscribe closure has been called, a stop
\* message with its id has been sent if the transport was open, its entry is
\* gone, and no next/error/complete frame for that id invokes a callback in
\* any later state.
C3_UnsubscribeStops ==
    /\ \A i \in 1..Len(step.called) : step.called[i].id \notin unsubscribed
    /\ unsubscribed \cap DOMAIN subscriptions = {}
    /\ step.op.name = "unsubscribe" =>
          /\ step.op.id \in unsubscribed
          /\ step.sent = IF isConnected
                         THEN << [on |-> ws, msg |-> Msg("stop", step.op.id, NoPayload)] >>
                         ELSE << >>

C3_Witness ==
    /\ step.op.name = "message"
    /\ step.op.type \in {"next", "error"}
    /\ step.op.id \in unsubscribed
    /\ step.called = << >>
    /\ isConnected

\* C4: an error frame for a registered id invokes its onError (if present) and
\* leaves the entry in the registry, so that a following complete frame for
\* the id invokes onComplete (if present) and removes the entry, and a
\* following next frame is delivered to onNext.
C4_ErrorRetains ==
    [][ LET m == step'.op
        IN (m.name = "message" /\ m.id \in DOMAIN subscriptions) =>
             LET cbs == subscriptions[m.id].cbs
             IN /\ m.type = "error" =>
                     /\ step'.called = Expect(m.id, "onError", cbs)
                     /\ subscriptions' = subscriptions
                /\ m.type = "next" =>
                     /\ step'.called = Expect(m.id, "onNext", cbs)
                     /\ subscriptions' = subscriptions
                /\ m.type = "complete" =>
                     /\ step'.called = Expect(m.id, "onComplete", cbs)
                     /\ subscriptions' = Del(subscriptions, m.id) ]_vars

C4_Witness ==
    /\ step.op.name = "message"
    /\ step.op.type = "error"
    /\ step.called = << [id |-> step.op.id, cb |-> "onError"] >>
    /\ step.op.id \in DOMAIN subscriptions
    /\ {"onNext", "onComplete"} \subseteq subscriptions[step.op.id].cbs
    /\ sock[step.op.t] = "open"

\* C5: close(), in any state, disables auto-reconnection, leaves no keepalive
\* timer running, closes the current transport and empties the registry,
\* invoking no callback; and no callback of a subscription that was active
\* when close() ran is invoked afterwards.
C5_CloseSilent ==
    [][ /\ \A i \in 1..Len(step'.called) : step'.called[i].id \notin closedIds'
        /\ step'.op.name = "close" =>
             /\ ~shouldReconnect'
             /\ pingInterval' = 0 /\ pingTimers' = {}
             /\ ws' = 0
             /\ ws # 0 => sock'[ws] \notin {"connecting", "open"}
             /\ subscriptions' = EmptyMap
             /\ step'.called = << >> ]_vars

\* C6: reconnect(), in any state, returns with auto-reconnection enabled, the
\* attempt counter 0, the previous transport torn down and (the constructor
\* not throwing) the client connecting on a transport it has just opened.
C6_ReconnectFresh ==
    [][ step'.op.name = "reconnect" =>
          /\ shouldReconnect'
          /\ reconnectAttempts' = 0
          /\ ws # 0 => sock'[ws] \notin {"connecting", "open"}
          /\ wsUrlValid =>
                /\ ws' # 0
                /\ sock[ws'] = "none"
                /\ sock'[ws'] = "connecting"
                /\ isConnecting' ]_vars

\* C7: whenever a subscribe() call resolves, its new id is in the registry
\* and a start message {id, payload: {query, variables}} for it has been sent
\* on the client's current transport.
C7_ResolveSendsStart ==
    \A i \in 1..Len(step.resolved) :
        LET id == step.resolved[i]
        IN /\ id \in DOMAIN subscriptions
           /\ ws # 0
           /\ \E j \in 1..Len(step.sent) :
                 step.sent[j] =
                   [on |-> ws,
                    msg |-> Msg("start", id,
                                [query |-> subscriptions[id].query,
                                 variables |-> subscriptions[id].variables])]

\* C8: updateConnectionParams(patch) stores the old parameters overridden
\* key by key by the patch, sends nothing and changes nothing else of the
\* client; a connection_init sent when a transport opens carries the
\* parameters stored at that moment.
C8_ParamsMerge ==
    [][ /\ \A p \in ParamPatches : UpdateConnectionParams(p) =>
             /\ DOMAIN connectionParams' = DOMAIN connectionParams \cup DOMAIN p
             /\ \A k \in DOMAIN p : connectionParams'[k] = p[k]
             /\ \A k \in DOMAIN connectionParams \ DOMAIN p :
                   connectionParams'[k] = connectionParams[k]
             /\ step'.sent = << >> /\ step'.called = << >>
             /\ UNCHANGED << ws, subscriptions, messageId, isConnecting,
                             shouldReconnect, reconnectAttempts, pingInterval,
                             connectionPromise, envVars >>
        /\ \A i \in 1..Len(step'.sent) :
             step'.sent[i].msg.type = "connection_init" =>
                /\ step'.op.name = "open"
                /\ step'.sent[i].msg.payload = connectionParams ]_vars

C8_Witness ==
    /\ step.op.name = "open"
    /\ calls.update = 1
    /\ \E i \in Sent("connection_init") :
          /\ step.sent[i].msg.payload = connectionParams
          /\ "tenant" \in DOMAIN connectionParams
          /\ connectionParams["token"] = 1

\* C9: at most one transport of a client is connecting or open at any time.
C9_OneTransport == Cardinality(ConnectingOrOpen) <= 1

\* C10: a request with k >= 1 explicit files and variables that contain
\* embedded files (and no files key of their own) is a multipart request whose
\* map gives the explicit files the keys 0..k-1 with the paths
\* variables.files.<i> and the embedded files the keys k.. with the walker's
\* paths, and whose transmitted variables hold k nulls under files and the
\* walker's cleaned value under every other key; options.files = [f1, f2]
\* with variables = {avatar: f3} gives the map {"0": ["variables.files.0"],
\* "1": ["variables.files.1"], "2": ["variables.avatar"]}, files = [null,
\* null] and avatar = null.
C10_ExplicitAndEmbedded ==
    /\ (/\ reqOut # NoRequest
        /\ getFilesLength(reqIn.files) > 0
        /\ Len(convertToFileArray(reqIn.files)) = getFilesLength(reqIn.files)
        /\ hasFiles(reqIn.variables)
        /\ ~Has(reqIn.variables, "files"))
       => LET k == getFilesLength(reqIn.files)
              e == extractFiles(reqIn.variables)
              n == Len(e.files)
              sent == Get(reqOut.operations, "variables")
          IN /\ reqOut.body = "FormData"
             /\ reqOut.parts = convertToFileArray(reqIn.files) \o e.files
             /\ DOMAIN reqOut.map = { ToString(i) : i \in 0..(k + n - 1) }
             /\ \A i \in 0..(k - 1) :
                   reqOut.map[ToString(i)] = << "variables.files." \o ToString(i) >>
             /\ \A j \in 0..(n - 1) :
                   reqOut.map[ToString(k + j)] = e.map[ToString(j)]
             /\ Get(sent, "files") = Arr([i \in 1..k |-> Null])
             /\ \A i \in 1..Len(reqIn.variables.keys) :
                   Get(sent, reqIn.variables.keys[i]) = Json(e.cleanVariables.vals[i])
    /\ (/\ reqOut # NoRequest
        /\ reqIn.files = Arr(<< f1, f2 >>)
        /\ reqIn.variables = One("avatar", f3))
       => /\ reqOut.map = [k \in {"0", "1", "2"} |->
                              CASE k = "0" -> << "variables.files.0" >>
                                [] k = "1" -> << "variables.files.1" >>
                                [] k = "2" -> << "variables.avatar" >>]
          /\ Get(Get(reqOut.operations, "variables"), "files") = Arr(<< Null, Null >>)
          /\ Get(Get(reqOut.operations, "variables"), "avatar") = Null

\* The file leaves of a tree with their paths, left to right and depth first:
\* a file is a leaf, an array-like value is entered item by item, any other
\* object entry by entry.
RECURSIVE Discovery(_, _), DiscoveryOf(_, _, _)
Discovery(v, path) ==
    CASE isFileObject(v) -> << [file |-> v, path |-> path] >>
      [] isFileListObject(v) ->
           DiscoveryOf([i \in 1..Len(ArrayFrom(v)) |->
                           [val |-> ArrayFrom(v)[i],
                            path |-> path \o "." \o ToString(i - 1)]], 1, << >>)
      [] v.tag = "Object" ->
           DiscoveryOf([i \in 1..Len(v.keys) |->
                           [val |-> v.vals[i],
                            path |-> IF path = "" THEN v.keys[i]
                                     ELSE path \o "." \o v.keys[i]]], 1, << >>)
      [] OTHER -> << >>
DiscoveryOf(children, i, found) ==
    IF i > Len(children) THEN found
    ELSE DiscoveryOf(children, i + 1,
                     found \o Discovery(children[i].val, children[i].path))

\* C11: extractFiles returns the files in left-to-right depth-first discovery
\* order, and a map whose keys are exactly "0".."n-1" for n files, the key "N"
\* holding exactly one path, the path of the N-th file discovered.
C11_DiscoveryOrder ==
    walked # NoWalk =>
        LET d == Discovery(reqIn.variables, "")
            n == Len(walked.files)
        IN /\ n = Len(d)
           /\ DOMAIN walked.map = { ToString(i) : i \in 0..(n - 1) }
           /\ \A i \in 1..n :
                 /\ walked.files[i] = d[i].file
                 /\ walked.map[ToString(i - 1)] = << "variables." \o d[i].path >>

C11_Witness ==
    /\ walked # NoWalk
    /\ walked.files = << f1, f2, f3 >>
    /\ walked.map["0"] = << "variables.a.b" >>
    /\ walked.map["1"] = << "variables.c.0" >>
    /\ walked.map["2"] = << "variables.c.1.d" >>

\* A path read as the peer reads it: split at every dot.
RECURSIVE Split(_)
Split(p) ==
    LET dots == { i \in 1..Len(p) : SubSeq(p, i, i) = "." }
    IN IF dots = {} THEN << p >>
       ELSE LET i == Min(dots)
            IN << SubSeq(p, 1, i - 1) >> \o Split(SubSeq(p, i + 1, Len(p)))

\* The tree v with x put at the position the segments lead to; v itself when
\* they lead nowhere.
RECURSIVE SetAt(_, _, _)
SetAt(v, segs, x) ==
    IF segs = << >> THEN x
    ELSE CASE v.tag = "Array" ->
                Arr([i \in 1..Len(v.items) |->
                       IF segs[1] = ToString(i - 1) THEN SetAt(v.items[i], Tail(segs), x)
                       ELSE v.items[i]])
           [] v.tag = "Object" ->
                Obj(v.keys,
                    [i \in 1..Len(v.keys) |->
                       IF segs[1] = v.keys[i] THEN SetAt(v.vals[i], Tail(segs), x)
                       ELSE v.vals[i]])
           [] OTHER -> v

\* files[i] put back into cleanVariables at the path map[i], for every i
RECURSIVE PutBack(_, _)
PutBack(e, i) ==
    IF i = 0 THEN Obj(<< "variables" >>, << e.cleanVariables >>)
    ELSE SetAt(PutBack(e, i - 1), Split(e.map[ToString(i - 1)][1]), e.files[i])

\* A tree with every file list read as the array of its files
RECURSIVE Listed(_)
Listed(v) ==
    CASE v.tag \in {"Array", "FileList"} ->
           Arr([i \in 1..Len(v.items) |-> Listed(v.items[i])])
      [] v.tag = "Object" ->
           Obj(v.keys, [i \in 1..Len(v.keys) |-> Listed(v.vals[i])])
      [] OTHER -> v

\* C12: for every variables tree, putting files[i] back into cleanVariables
\* at the path map[i] gives a tree deep-equal to the input (a file list
\* counting as the array of its files).
C12_RoundTrip ==
    (walked # NoWalk /\ reqIn.variables.tag = "Object") =>
        PutBack(walked, Len(walked.files))
          = Obj(<< "variables" >>, << Listed(reqIn.variables) >>)

\* C13: hasFiles is false for null, for the empty object and for every tree
\* without a file leaf, and a request that graphqlRequest sends as multipart
\* carries at least one file part.
C13_NoFilesNoMultipart ==
    reqOut # NoRequest =>
        /\ reqIn.variables \in {Null, EmptyObj} => ~hasFiles(reqIn.variables)
        /\ Discovery(reqIn.variables, "") = << >> => ~hasFiles(reqIn.variables)
        /\ reqOut.body = "FormData" => reqOut.parts # << >>

\* The value a header name has after the three layers: the per-call value if
\* the call names it, else the default value if the defaults name it, else
\* the value derived from the API key or set by the request's kind.
HeaderNames == { "x-api-key", "authorization", "Content-Type" }
Layered(ctx, k, multipart) ==
    LET key == IF Falsy(ctx.apiKey) THEN ctx.defaultApiKey ELSE ctx.apiKey
    IN CASE Has(ctx.headers, k) -> Get(ctx.headers, k)
         [] Has(ctx.defaultHeaders, k) -> Get(ctx.defaultHeaders, k)
         [] k = "x-api-key" /\ ~Falsy(key) -> key
         [] k = "Content-Type" /\ ~multipart -> Str("application/json")
         [] OTHER -> Undefined

\* C14: in the JSON and in the multipart request, every header given to fetch
\* has the per-call value if the call sets it, else the default value if the
\* instance defaults set it, else the value derived from the API key.
C14_HeaderLayers ==
    (reqReply # NoReply /\ reqOut.body \in { "FormData", "JSON" }) =>
        \A k \in HeaderNames :
            Get(reqReply.headers, k) = Layered(reqCtx, k, reqOut.body = "FormData")

\* C14 happens: a multipart request made with an API key, with defaults that
\* name x-api-key and authorization, and with a per-call authorization.
C14_Witness ==
    /\ reqReply # NoReply
    /\ reqOut.body = "FormData"
    /\ reqCtx.apiKey = Str("call-key")
    /\ reqCtx.defaultHeaders = Two("x-api-key", Str("d"), "authorization", Str("d"))
    /\ reqCtx.headers = One("authorization", Str("c"))
    /\ Get(reqReply.headers, "x-api-key") = Str("d")
    /\ Get(reqReply.headers, "authorization") = Str("c")

\* The call failed: the body could not be built, fetch rejected, or the
\* response has a non-success status.
Failed ==
    \/ reqOut.body = "TypeError"
    \/ reqReply.answer.kind = "rejects"
    \/ reqReply.answer.kind = "response" /\ ~reqReply.answer.ok

\* C15: the promise of graphqlRequest is never rejected; when the call failed
\* it resolves to {data: undefined, errors: [...]} with a non-empty errors
\* list, and when the response is a success with a JSON body it resolves to
\* the parsed body.
C15_NeverRejects ==
    reqReply # NoReply =>
        /\ reqReply.settled = "resolved"
        /\ Failed => /\ reqReply.value.keys = << "data", "errors" >>
                     /\ Get(reqReply.value, "data") = Undefined
                     /\ Get(reqReply.value, "errors").tag = "Array"
                     /\ Get(reqReply.value, "errors").items # << >>
        /\ (~Failed /\ reqReply.answer.json) =>
               reqReply.value = reqReply.answer.body

\* The files option holds at least one file: a File, a File array or a FileList.
FilesGiven(files) ==
    \/ files.tag = "File"
    \/ files.tag \in { "Array", "FileList" } /\ files.items # << >>
FilesOf(files) == IF files.tag = "File" THEN << files >> ELSE files.items

\* C16: the request executeGraphQL issues for a call with a files option is a
\* multipart upload, and every file of the option is one of its file parts.
C16_FilesTransmitted ==
    (exec # NoExec /\ exec.request # NoRequest /\ FilesGiven(reqIn.files)) =>
        /\ exec.request.body = "FormData"
        /\ \A i \in 1..Len(FilesOf(reqIn.files)) :
              \E j \in 1..Len(exec.request.parts) :
                  exec.request.parts[j] = FilesOf(reqIn.files)[i]

\* C17: the ids subscribe() allocates in a step are the successors of the
\* counter, in order, the counter never goes back, and every id of the
\* registry is at most the counter; so every id allocated differs from every
\* id allocated before it, across close(), reconnect() and reconnections, and
\* no allocation overwrites a live entry.
C17_IdsDistinct ==
    [][/\ messageId' >= messageId
       /\ step'.resolved = [i \in 1..(messageId' - messageId) |-> messageId + i]
       /\ \A i \in 1..Len(step'.resolved) :
             step'.resolved[i] \notin DOMAIN subscriptions
       /\ DOMAIN subscriptions' \subseteq 1..messageId']_vars

\* C17 happens: a second id is allocated after reconnect() emptied the
\* registry that held the first.
C17_Witness ==
    /\ calls.reconnect > 0
    /\ 1 \in closedIds
    /\ step.resolved = << 2 >>
    /\ DOMAIN subscriptions = {2}

\* C18: the step in which a transport reports open sends exactly one
\* connection_init, as its first message, on that transport, with the stored
\* connection parameters; no other step sends a connection_init.
C18_InitOnOwnTransport ==
    [][IF step'.op.name = "open"
       THEN /\ Sent("connection_init")' = {1}
            /\ step'.sent[1].on = step'.op.t
            /\ step'.sent[1].msg.payload = connectionParams
       ELSE Sent("connection_init")' = {}]_vars

\* C19: never more than one keepalive timer is active, and exactly one is
\* while isConnected() is true.
C19_OneKeepalive ==
    /\ Cardinality(pingTimers) <= 1
    /\ isConnected => Cardinality(pingTimers) = 1

\* C20: a close event that finds reconnection enabled and the counter below
\* the ceiling adds one to the counter and schedules one timer, with the
\* backoff delay; an error event leaves the counter and the timers alone (the
\* close event that follows it does the scheduling); a timer that fires is
\* spent, schedules nothing and rejects no caller, and calls connect() if
\* reconnection is still enabled, which opens a transport unless one is open
\* or being connected.
C20_CloseSchedules ==
    [][/\ step'.op.name = "closed" =>
             IF shouldReconnect /\ reconnectAttempts < maxReconnectAttempts
             THEN /\ reconnectAttempts' = reconnectAttempts + 1
                  /\ step'.scheduled = << Delay(reconnectAttempts + 1) >>
                  /\ timers' = timers (+) SetToBag({ Delay(reconnectAttempts + 1) })
             ELSE /\ reconnectAttempts' = reconnectAttempts
                  /\ step'.scheduled = << >>
                  /\ timers' = timers
       /\ step'.op.name = "error" =>
             /\ reconnectAttempts' = reconnectAttempts
             /\ step'.scheduled = << >>
             /\ timers' = timers
       /\ step'.op.name = "timer" =>
             /\ BagCardinality(timers') = BagCardinality(timers) - 1
             /\ step'.scheduled = << >>
             /\ step'.rejected = 0
             /\ reconnectAttempts' = reconnectAttempts
             /\ step'.opened # << >>
                   <=> (shouldReconnect /\ ~isConnecting /\ ~isConnected)]_vars

\* C20 happens: the transport a reconnect timer opened has failed, and its
\* close event schedules the next attempt.
C20_Witness ==
    /\ step.op.name = "closed"
    /\ step.op.t = 2
    /\ calls.reconnect = 0
    /\ reconnectAttempts = 2
    /\ step.scheduled = << 2000 >>

\* C20 as stated: a close event and an error event alike add one to the
\* counter and schedule one timer.
C20_CloseOrError ==
    [][(/\ step'.op.name \in { "closed", "error" }
        /\ shouldReconnect
        /\ reconnectAttempts < maxReconnectAttempts)
       => /\ reconnectAttempts' = reconnectAttempts + 1
          /\ Len(step'.scheduled) = 1]_vars

\* A close event has found reconnection enabled and the counter at the
\* ceiling, and neither an open event nor reconnect() has come since.
Exhausted == closures > maxReconnectAttempts

\* C21: from the close event that finds the counter at the ceiling until
\* reconnect() is called, isConnected() is false and no step opens a
\* transport.
C21_StaysDisconnected ==
    [][Exhausted' => /\ ~isConnected'
                     /\ Exhausted => step'.opened = << >>]_vars

\* C22: close() leaves no transport connecting or open, and while
\* reconnection stays disabled no step other than a subscribe() call opens a
\* transport, schedules a timer or makes a transport connecting or open: not
\* a timer that was pending, not the close event of the closed transport.
C22_ClosedIsTerminal ==
    [][(~shouldReconnect' /\ step'.op.name \notin { "subscribe", "reconnect" })
       => /\ step'.opened = << >>
          /\ step'.scheduled = << >>
          /\ step'.op.name = "close" => ConnectingOrOpen' = {}
          /\ ConnectingOrOpen = {} => ConnectingOrOpen' = {}]_vars

\* C23: an entry leaves the registry only in a close() or reconnect() step,
\* in the step of its own unsubscribe closure, or in the step of a complete
\* frame for its id, and an entry that stays is not altered; a frame of any
\* other type, a transport close or error event, a reconnect timer, a
\* keepalive tick and updateConnectionParams leave the registry as it was; an
\* error frame also leaves the transports, the flags, the counter and the
\* timers as they were and sends nothing.
C23_RemovalCauses ==
    [][/\ \A id \in DOMAIN subscriptions :
             IF id \in DOMAIN subscriptions'
             THEN subscriptions'[id] = subscriptions[id]
             ELSE \/ step'.op.name \in { "close", "reconnect" }
                  \/ step'.op.name = "unsubscribe" /\ step'.op.id = id
                  \/ /\ step'.op.name = "message"
                     /\ step'.op.type = "complete"
                     /\ step'.op.id = id
       /\ (\/ step'.op.name \in { "closed", "error", "timer", "update", "ping" }
           \/ step'.op.name = "message" /\ step'.op.type # "complete")
          => subscriptions' = subscriptions
       /\ (step'.op.name = "message" /\ step'.op.type = "error")
          => /\ step'.sent = << >>
             /\ UNCHANGED << ws, sock, isConnecting, shouldReconnect,
                             reconnectAttempts, pingInterval, pingTimers, timers,
                             connectionPromise, messageId >>]_vars

\* C23 happens: an error frame for id 1 has invoked its onError while the
\* registry holds the entries 1 and 2.
C23_Witness ==
    /\ step.op.name = "message"
    /\ step.op.type = "error"
    /\ step.op.id = 1
    /\ step.called = << [id |-> 1, cb |-> "onError"] >>
    /\ DOMAIN subscriptions = { 1, 2 }

\* C24: a call of an unsubscribe closure that has been called before changes
\* nothing in the client (registry, counters, flags, transports, timers) and
\* invokes no callback; it sends one stop frame for its id if the transport
\* is open, and nothing otherwise.
C24_UnsubscribeIdempotent ==
    [][(step'.op.name = "unsubscribe" /\ step'.op.id \in unsubscribed)
       => /\ UNCHANGED << clientVars, envVars, unsubscribed, closedIds >>
          /\ step'.called = << >>
          /\ step'.resolved = << >> /\ step'.opened = << >>
          /\ step'.scheduled = << >>
          /\ step'.sent =
                IF isConnected
                THEN << [on |-> ws, msg |-> Msg("stop", step'.op.id, NoPayload)] >>
                ELSE << >>]_vars

\* C24 happens: the closure of id 1 is called again on an open transport
\* while the registry holds another entry.
C24_Witness ==
    /\ step.op.name = "unsubscribe"
    /\ step.op.id = 1
    /\ step.op.type = "again"
    /\ Sent("stop") = {1}
    /\ DOMAIN subscriptions = {2}

\* C25: the step of an inbound ping sends exactly one pong, on the transport
\* the ping arrived on; the step of an inbound pong changes nothing and sends
\* nothing; a keepalive tick only sends: it closes no transport, schedules no
\* timer and opens nothing, whether or not a pong ever comes.
C25_PingPong ==
    [][/\ (step'.op.name = "message" /\ step'.op.type = "ping")
          => step'.sent = << [on |-> step'.op.t, msg |-> Msg("pong", 0, NoPayload)] >>
       /\ (step'.op.name = "message" /\ step'.op.type = "pong")
          => /\ UNCHANGED << clientVars, envVars >>
             /\ step'.sent = << >>
       /\ step'.op.name = "ping"
          => /\ UNCHANGED << clientVars, envVars >>
             /\ step'.scheduled = << >>
             /\ step'.opened = << >>]_vars

\* C26: in the step in which the current transport reports open, before any
\* frame can have arrived on it, every subscribe() call that awaits its
\* connect promise resumes and its start frame is sent on that transport;
\* every frame the client sends goes to a transport that is open; and the
\* step of an inbound connection_ack changes nothing, sends nothing and
\* invokes no callback.
C26_ReadyOnOpen ==
    [][/\ (step'.op.name = "open" /\ ws = step'.op.t)
          => /\ Len(step'.resolved) =
                   Cardinality({ i \in 1..Len(waiting) : waiting[i].p = step'.op.t })
             /\ \A i \in 1..Len(step'.resolved) :
                   \E j \in Sent("start")' :
                       /\ step'.sent[j].on = step'.op.t
                       /\ step'.sent[j].msg.id = step'.resolved[i]
       /\ \A j \in 1..Len(step'.sent) : sock'[step'.sent[j].on] = "open"
       /\ (step'.op.name = "message" /\ step'.op.type = "connection_ack")
          => /\ UNCHANGED << clientVars, envVars >>
             /\ step'.sent = << >>
             /\ step'.called = << >>]_vars

\* C26 happens: transport 1 reports open and, in that step, the waiting
\* subscribe() resolves with id 1 and its start frame follows the
\* connection_init on transport 1.
C26_Witness ==
    /\ step.op.name = "open"
    /\ step.op.t = 1
    /\ step.resolved = << 1 >>
    /\ Len(step.sent) = 2
    /\ step.sent[2].on = 1
    /\ step.sent[2].msg.type = "start"
    /\ step.sent[2].msg.id = 1

\* C27: in the multipart request made for k >= 1 explicit files, part i is
\* file i and map[i] is the single path variables.files.<i>; the transmitted
\* variables hold under files an array of k nulls if the caller's variables
\* have no files key, and the caller's own files array if they have one.
C27_ExplicitPaths ==
    (/\ reqOut # NoRequest
     /\ getFilesLength(reqIn.files) > 0
     /\ Len(convertToFileArray(reqIn.files)) = getFilesLength(reqIn.files)
     /\ reqOut.body # "TypeError")
    => LET k == getFilesLength(reqIn.files)
           sent == Get(reqOut.operations, "variables")
       IN /\ reqOut.body = "FormData"
          /\ \A i \in 0..(k - 1) :
                /\ reqOut.parts[i + 1] = convertToFileArray(reqIn.files)[i + 1]
                /\ reqOut.map[ToString(i)] = << "variables.files." \o ToString(i) >>
          /\ ~Has(reqIn.variables, "files")
                => Get(sent, "files") = Arr([i \in 1..k |-> Null])
          /\ (Has(reqIn.variables, "files")
                /\ Get(reqIn.variables, "files").tag = "Array")
                => Get(sent, "files") = Json(Get(reqIn.variables, "files"))

\* C28: for every variables tree, hasFiles(variables) is true exactly when
\* the files extractFiles(variables) returns are not empty.
C28_SameClassification ==
    walked # NoWalk => (hasFiles(reqIn.variables) <=> walked.files # << >>)

\* C29: the error event of a transport whose connect promise is pending
\* rejects every subscribe() call that awaits it, and a subscribe() call
\* that resumes on a rejected promise (the constructor threw) is rejected;
\* a step in which no call resolves allocates no id, adds no registry entry
\* and sends no start frame, and a step that rejects a call leaves every
\* registry entry as it was.
C29_FailedConnectRejects ==
    [][/\ (step'.op.name = "error" /\ prom[step'.op.t] = "pending")
          => /\ step'.rejected =
                   Cardinality({ i \in 1..Len(waiting) : waiting[i].p = step'.op.t })
             /\ step'.resolved = << >>
       /\ (/\ step'.op.name = "resume"
           /\ PromState(Cur, waiting[Min(Settled(Cur))].p) = "rejected")
          => /\ step'.rejected = 1
             /\ step'.resolved = << >>
       /\ step'.resolved = << >>
          => /\ messageId' = messageId
             /\ DOMAIN subscriptions' \subseteq DOMAIN subscriptions
             /\ Sent("start")' = {}
       /\ step'.rejected > 0 => subscriptions' = subscriptions]_vars

\* C29 happens: the error event of the transport a reconnect timer opened
\* rejects the subscribe() call that awaited it, while the registry holds the
\* entry of an earlier call.
C29_Witness ==
    /\ step.op.name = "error"
    /\ step.op.t = 2
    /\ step.rejected = 1
    /\ step.sent = << >>
    /\ messageId = 1
    /\ DOMAIN subscriptions = {1}

\* C30: a transport close or error event, a reconnect timer and a transport
\* open event leave every registry entry in place and unaltered, and every
\* start frame sent in any step carries an id that a subscribe() call was
\* given in that step: no start frame is sent for an entry the registry
\* already held.
C30_NoResubscribe ==
    [][/\ step'.op.name \in { "closed", "error", "timer", "open" }
          => \A id \in DOMAIN subscriptions :
                /\ id \in DOMAIN subscriptions'
                /\ subscriptions'[id] = subscriptions[id]
       /\ \A j \in Sent("start")' :
             /\ step'.sent[j].msg.id \notin DOMAIN subscriptions
             /\ \E i \in 1..Len(step'.resolved) :
                   step'.resolved[i] = step'.sent[j].msg.id]_vars

\* C30 happens: after a closure and a reconnect timer, with no reconnect()
\* call, transport 2 reports open while the registry holds entry 1, and the
\* only frame sent is the connection_init.
C30_Witness ==
    /\ step.op.name = "open"
    /\ step.op.t = 2
    /\ calls.reconnect = 0
    /\ calls.subscribe = 1
    /\ DOMAIN subscriptions = {1}
    /\ Len(step.sent) = 1
    /\ step.sent[1].on = 2
    /\ step.sent[1].msg.type = "connection_init"

\* C31: every transport open event leaves the attempt counter at 0; the
\* counter is the number of closures, with reconnection enabled, since the
\* last open event or reconnect() call, capped at the ceiling; and the first
\* such closure schedules the base delay.
C31_OpenResets ==
    [][/\ step'.op.name = "open" => reconnectAttempts' = 0
       /\ reconnectAttempts' =
             IF closures' <= maxReconnectAttempts THEN closures'
             ELSE maxReconnectAttempts
       /\ (step'.op.name = "closed" /\ shouldReconnect /\ closures = 0)
          => /\ reconnectAttempts' = 1
             /\ step'.scheduled = << reconnectDelay >>]_vars

\* C31 happens: transport 1 has closed, the reconnect timer has opened
\* transport 2, which reported open, and the closure of transport 2
\* schedules the base delay again.
C31_Witness ==
    /\ step.op.name = "closed"
    /\ step.op.t = 2
    /\ sock[1] = "closed"
    /\ calls.reconnect = 0
    /\ shouldReconnect
    /\ reconnectAttempts = 1
    /\ step.scheduled = << reconnectDelay >>

\* C32: under the scheduling of the event loop, whenever subscribe() calls
\* are suspended at their await, a state follows in which each of them has
\* resolved or been rejected, whatever close() and reconnect() calls are made
\* in between.
C32_SubscribeSettles == (waiting # << >>) ~> (waiting = << >>)

\* C32 happens: close() was called while a subscribe() call was suspended on
\* a connecting transport, and the error event of that transport rejects it.
C32_Witness ==
    /\ step.op.name = "error"
    /\ step.op.t = 1
    /\ calls.subscribe = 1 /\ calls.close = 1
    /\ step.rejected = 1
    /\ waiting = << >>

\* C33: in every multipart body graphqlRequest builds, two different keys of
\* the map name no path in common, whatever explicit files and variables the
\* caller gave.
C33_DistinctPaths ==
    (reqOut # NoRequest /\ reqOut.body = "FormData")
    => \A a, b \in DOMAIN reqOut.map :
          a # b => \A i \in 1..Len(reqOut.map[a]), j \in 1..Len(reqOut.map[b]) :
                      reqOut.map[a][i] # reqOut.map[b][j]

====
